---------------------------- MODULE Spec2Model ----------------------------
(***************************************************************************)
(* Model of the city network generator, city_generator/city_builder.py:    *)
(* CityBuilder.generate_random_city and the functions it calls.            *)
(*                                                                         *)
(* Calls to the random module are nondeterministic choices.  Station ids   *)
(* f"station_{n}" and route ids f"route_{n}" are modelled by the number n  *)
(* (the formatting is injective).  Python's None is the string "None".     *)
(***************************************************************************)
EXTENDS Integers, Sequences, FiniteSets, TLC

VARIABLES
    gridSize,           \* self.grid_size
    pc,                 \* position inside generate_random_city
    error,              \* exception that ended generation, or "none"
    grid,               \* _generate_zones: grid[x][y], a function on cells
    zone_k,             \* _generate_zones: index of the zone type of the cluster loop
    zones,              \* list of zone records
    stations,           \* list of station records
    station_positions,  \* _generate_stations: list of <<x, y>>
    station_id,         \* _generate_stations: id counter
    i,                  \* _generate_stations: loop index of the current tier
    placed,             \* history: how each station got its cell
    connections,        \* list of connection records
    routes,             \* list of route records
    min_dist_arg,       \* find_good_position: its min_dist argument
    attempts,           \* find_good_position: rejected samples so far
    sample,             \* find_good_position: the cell sampled last in the loop
    found,              \* find_good_position: the position returned
    connected,          \* backbone loop: the set of connected station ids
    components,         \* _ensure_connectivity: the list of components
    ordered,            \* _order_stations_by_distance: the ordered list
    remaining           \* _order_stations_by_distance: the remaining list

\* the locals of the loops that the second specification runs step by step
loopVars == <<min_dist_arg, attempts, sample, found, connected, components, ordered,
              remaining>>

vars == <<gridSize, pc, error, grid, zone_k, zones, stations, station_positions,
          station_id, i, placed, connections, routes, loopVars>>

-----------------------------------------------------------------------------
(* Bounds of the model *)

\* largest grid size of a full run of generate_random_city
MaxGrid == 3
\* largest grid size for which connections and routes are built from
\* station lists that repeat three cells
MaxRouteGrid == 12
\* largest grid size for which the station placement is run on its own; on
\* the grids above MaxGrid the random generator returns one cell only
MaxCountGrid == 8
\* number of distinct cells the random generator may return to the station
\* placer: the first MaxDraw cells of the grid's diagonal
MaxDraw == 2
\* the loops run alone: lists of up to MaxStations stations, x in 0 .. MaxCoord
MaxStations == 3
MaxCoord == 1

GridSizes == -1 .. MaxGrid

-----------------------------------------------------------------------------
(* Program constants *)

max_attempts == 50

zone_types == <<"residential", "commercial", "industrial">>
station_types == <<"bus", "tram", "metro">>

-----------------------------------------------------------------------------
(* Generic helpers: Python built-ins *)

Max(a, b) == IF a >= b THEN a ELSE b
Min(a, b) == IF a <= b THEN a ELSE b
Abs(a) == IF a >= 0 THEN a ELSE 0 - a

Range(s) == {s[k] : k \in DOMAIN s}

\* s[a:b] for 0 <= a, with Python's clamping of the end index (a, b 0-based)
Slice(s, a, b) ==
    LET e == Min(b, Len(s))
    IN  IF a >= e THEN <<>> ELSE [k \in 1 .. (e - a) |-> s[a + k]]

\* random.randint(a, b): the set of values it can return; empty means ValueError
RandInt(a, b) == a .. b

\* Manhattan distance between two records or pairs with x, y
Dist(x1, y1, x2, y2) == Abs(x1 - x2) + Abs(y1 - y2)

-----------------------------------------------------------------------------
(* _generate_zones *)

Cells(g) == (0 .. g - 1) \X (0 .. g - 1)

cluster_size(g) == Max(2, g \div 3)

\* the bounds of random.randint for a cluster centre coordinate
CenterLo(g) == cluster_size(g) \div 2
CenterHi(g) == g - cluster_size(g) \div 2 - 1

\* range(-cluster_size//2, cluster_size//2 + 1)
Offsets(g) == ((0 - cluster_size(g)) \div 2) .. (cluster_size(g) \div 2)

\* mutant: the cluster loops write into assigned cells too
ClusterCellsOverwrite(g, gr, cx, cy) ==
    {c \in Cells(g) : /\ (c[1] - cx) \in Offsets(g)
                      /\ (c[2] - cy) \in Offsets(g)}

\* the cells the cluster loops write for centre (cx, cy): on the grid and still None
ClusterCells(g, gr, cx, cy) ==
    {c \in Cells(g) : /\ (c[1] - cx) \in Offsets(g)
                      /\ (c[2] - cy) \in Offsets(g)
                      /\ gr[c] = "None"}

\* the zone list built by the final double loop: x outer, y inner
ZoneList(g, gr) ==
    [k \in 1 .. g * g |->
        LET x == (k - 1) \div g
            y == (k - 1) % g
        IN  [x |-> x, y |-> y, type |-> gr[<<x, y>>]]]

\* One iteration of "for zone_type in self.zone_types": two randint draws
\* (ValueError when the range is empty), then the cluster fill.
ZoneCluster ==
    /\ pc = "zones"
    /\ zone_k <= Len(zone_types)
    /\ IF RandInt(CenterLo(gridSize), CenterHi(gridSize)) = {}
       THEN /\ pc' = "error"
            /\ error' = "ValueError"
            /\ zone_k' = zone_k
            /\ grid' = grid
       ELSE /\ \E cx \in RandInt(CenterLo(gridSize), CenterHi(gridSize)),
                  cy \in RandInt(CenterLo(gridSize), CenterHi(gridSize)) :
                  grid' = [c \in Cells(gridSize) |->
                             IF c \in ClusterCells(gridSize, grid, cx, cy)
                             THEN zone_types[zone_k] ELSE grid[c]]
            /\ zone_k' = zone_k + 1
            /\ UNCHANGED <<pc, error>>
    /\ UNCHANGED <<gridSize, zones, stations, station_positions, station_id, i,
                   placed, connections, routes>>
    /\ UNCHANGED loopVars

\* The fill loop: every cell still None gets random.choice(self.zone_types)
\* (IndexError on an empty list), and every cell is appended to zones.
ZoneFill ==
    /\ pc = "zones"
    /\ zone_k > Len(zone_types)
    /\ LET none == {c \in Cells(gridSize) : grid[c] = "None"}
       IN  IF none # {} /\ Len(zone_types) = 0
           THEN /\ pc' = "error"
                /\ error' = "IndexError"
                /\ UNCHANGED <<grid, zones>>
           ELSE /\ \E f \in [none -> Range(zone_types)] :
                      /\ grid' = [c \in Cells(gridSize) |->
                                    IF c \in none THEN f[c] ELSE grid[c]]
                      /\ zones' = ZoneList(gridSize, grid')
                /\ pc' = "metro"
                /\ error' = error
    /\ UNCHANGED <<gridSize, zone_k, stations, station_positions, station_id, i,
                   placed, connections, routes>>
    /\ UNCHANGED loopVars

-----------------------------------------------------------------------------
(* _generate_stations *)

\* max(3, int(total_area * 0.25 * 0.3)) and the like: 0.25 * 0.3 = 3/40,
\* 0.25 * 0.35 = 7/80, 0.25 * 0.4 = 1/10
\* mutant: the minimum counts are dropped
station_counts_unfloored(g) ==
    [metro |-> (g * g * 3) \div 40,
     tram  |-> (g * g * 7) \div 80,
     bus   |-> (g * g) \div 10]

station_counts(g) ==
    [metro |-> Max(3, (g * g * 3) \div 40),
     tram  |-> Max(4, (g * g * 7) \div 80),
     bus   |-> Max(5, (g * g) \div 10)]

min_distance(g) == Max(2, g \div 6)

\* mutant: the distance to the existing positions is compared the other way
is_too_close_reversed(x, y, existing_positions, min_dist) ==
    \E k \in DOMAIN existing_positions :
        Dist(x, y, existing_positions[k][1], existing_positions[k][2]) >= min_dist

is_too_close(x, y, existing_positions, min_dist) ==
    \E k \in DOMAIN existing_positions :
        Dist(x, y, existing_positions[k][1], existing_positions[k][2]) < min_dist

\* the cells a pair of randint(0, grid_size - 1) draws may return in this model
\* (the placer runs only after _generate_zones returned, so the range 0 .. g - 1
\* is not empty and randint cannot raise here)
\* mutant: the draws are randint(1, grid_size)
SampleCellsPastEdge(g) ==
    {c \in RandInt(1, g) \X RandInt(1, g) :
        c[1] = c[2] /\ c[1] > g - (IF g <= MaxGrid THEN MaxDraw ELSE 1)}

SampleCells(g) ==
    {c \in RandInt(0, g - 1) \X RandInt(0, g - 1) :
        c[1] = c[2] /\ c[1] < (IF g <= MaxGrid THEN MaxDraw ELSE 1)}

\* find_good_position: the pairs <<cell, how>> it can return.  A cell that is
\* not too close is returned by the attempt that sampled it ("sample"); when
\* all max_attempts samples were too close, a fresh cell is drawn ("fallback").
find_good_position(g, existing_positions, min_dist) ==
    LET good == {c \in SampleCells(g) :
                    ~ is_too_close(c[1], c[2], existing_positions, min_dist)}
        bad  == SampleCells(g) \ good
    IN  {<<c, "sample">> : c \in good}
          \cup (IF bad # {}
                THEN {<<c, "fallback">> : c \in SampleCells(g)} ELSE {})

Station(id, x, y, type) ==
    [id |-> id, x |-> x, y |-> y, type |-> type, is_transfer |-> FALSE]

\* mutant: the id counter is not advanced
AppendStationSameId(c, type, how, count, next_pc) ==
    /\ stations' = Append(stations, Station(station_id, c[1], c[2], type))
    /\ station_id' = station_id
    /\ placed' = Append(placed, how)
    /\ IF i + 1 < count
       THEN i' = i + 1 /\ pc' = pc
       ELSE i' = 0 /\ pc' = next_pc

\* what every tier does after it has its cell: append the record, count up;
\* after the last station of the tier the next for loop starts at 0
AppendStation(c, type, how, count, next_pc) ==
    /\ stations' = Append(stations, Station(station_id, c[1], c[2], type))
    /\ station_id' = station_id + 1
    /\ placed' = Append(placed, how)
    /\ IF i + 1 < count
       THEN i' = i + 1 /\ pc' = pc
       ELSE i' = 0 /\ pc' = next_pc

PlaceMetro ==
    /\ pc = "metro"
    /\ i < station_counts(gridSize).metro
    /\ \E r \in find_good_position(gridSize, station_positions, min_distance(gridSize)) :
          /\ station_positions' = Append(station_positions, r[1])
          /\ AppendStation(r[1], "metro", r[2], station_counts(gridSize).metro, "tram")
    /\ UNCHANGED <<gridSize, error, grid, zone_k, zones, connections, routes>>
    /\ UNCHANGED loopVars

\* one iteration of a tram or bus loop: co-location when i < len(station_positions)
\* and random.random() is below the chance, a position search otherwise
PlaceTier(type, min_dist, count, next_pc) ==
    /\ i < count
    /\ \/ /\ i < Len(station_positions)
          /\ station_positions' = station_positions
          /\ AppendStation(station_positions[(i % Len(station_positions)) + 1],
                           type, "coloc", count, next_pc)
       \/ \E r \in find_good_position(gridSize, station_positions, min_dist) :
             /\ station_positions' = Append(station_positions, r[1])
             /\ AppendStation(r[1], type, r[2], count, next_pc)
    /\ UNCHANGED <<gridSize, error, grid, zone_k, zones, connections, routes>>
    /\ UNCHANGED loopVars

PlaceTram ==
    /\ pc = "tram"
    /\ PlaceTier("tram", min_distance(gridSize) \div 2,
                 station_counts(gridSize).tram, "bus")

PlaceBus ==
    /\ pc = "bus"
    /\ PlaceTier("bus", min_distance(gridSize) \div 3,
                 station_counts(gridSize).bus, "stations_return")

\* return stations: the locals of _generate_stations go out of scope
ReturnStations ==
    /\ pc = "stations_return"
    /\ pc' = "transfer"
    /\ station_positions' = <<>>
    /\ placed' = <<>>
    /\ UNCHANGED <<gridSize, error, grid, zone_k, zones, stations, station_id, i,
                   connections, routes>>
    /\ UNCHANGED loopVars

-----------------------------------------------------------------------------
(* _generate_connections *)

Connection(a, b, w) == [from |-> a, to |-> b, walk_time |-> w]

\* the index pairs <<a, b>>, 1 <= a < b <= n, in the order of the nested loops
\* "for i, s1 in enumerate(l): for s2 in l[i+1:]"
AllPairs(n) ==
    SelectSeq([k \in 1 .. n * n |-> <<((k - 1) \div n) + 1, ((k - 1) % n) + 1>>],
              LAMBDA p : p[1] < p[2])

RECURSIVE Concat(_)
Concat(ss) == IF ss = <<>> THEN <<>> ELSE Head(ss) \o Concat(Tail(ss))

\* location_groups: the groups of co-located stations, in the insertion order
\* of the dict (the order in which each location first occurs in the list)
location_groups(st) ==
    LET first == SelectSeq([k \in 1 .. Len(st) |-> k],
                           LAMBDA k : \A j \in 1 .. (k - 1) :
                                         <<st[j].x, st[j].y>> # <<st[k].x, st[k].y>>)
    IN  [g \in 1 .. Len(first) |->
            SelectSeq(st, LAMBDA s : <<s.x, s.y>> = <<st[first[g]].x, st[first[g]].y>>)]

\* mutant: every station of a group becomes the marked first station of it
MarkTransfersAliased(st) ==
    [k \in 1 .. Len(st) |->
        LET group == {j \in 1 .. Len(st) : <<st[j].x, st[j].y>> = <<st[k].x, st[k].y>>}
            first == CHOOSE j \in group : \A m \in group : j <= m
        IN  IF Cardinality(group) > 1
            THEN [st[first] EXCEPT !.is_transfer = TRUE]
            ELSE st[k]]

\* station["is_transfer"] = True for every station of a group with len(group) > 1
MarkTransfers(st) ==
    [k \in 1 .. Len(st) |->
        IF Cardinality({j \in 1 .. Len(st) : <<st[j].x, st[j].y>> = <<st[k].x, st[k].y>>}) > 1
        THEN [st[k] EXCEPT !.is_transfer = TRUE]
        ELSE st[k]]

\* mutant: the mode test is inverted
GroupEdgesSameMode(group) ==
    LET ps == SelectSeq(AllPairs(Len(group)),
                        LAMBDA p : group[p[1]].type = group[p[2]].type)
    IN  [k \in 1 .. Len(ps) |-> Connection(group[ps[k][1]].id, group[ps[k][2]].id, 2)]

\* the edges between different modes of one group
GroupEdges(group) ==
    LET ps == SelectSeq(AllPairs(Len(group)),
                        LAMBDA p : group[p[1]].type # group[p[2]].type)
    IN  [k \in 1 .. Len(ps) |-> Connection(group[ps[k][1]].id, group[ps[k][2]].id, 2)]

TransferConnections(st) ==
    LET groups == location_groups(st)
    IN  Concat([g \in 1 .. Len(groups) |->
                   IF Len(groups[g]) > 1 THEN GroupEdges(groups[g]) ELSE <<>>])

StationDist(s1, s2) == Dist(s1.x, s1.y, s2.x, s2.y)

\* mutant: the first pair in loop order, whatever its distance
best_pair_first(st, conn_set) ==
    LET cand == {p \in (1 .. Len(st)) \X (1 .. Len(st)) :
                    st[p[1]].id \in conn_set /\ st[p[2]].id \notin conn_set}
    IN  IF cand = {} THEN <<>>
        ELSE CHOOSE p \in cand :
                \A q \in cand : p[1] < q[1] \/ (p[1] = q[1] /\ p[2] <= q[2])

\* best_pair of one pass of the backbone's double loop: the first pair, in
\* loop order, of a connected and an unconnected station at minimal distance
\* (the comparison is strict); <<>> stands for None
best_pair(st, conn_set) ==
    LET cand == {p \in (1 .. Len(st)) \X (1 .. Len(st)) :
                    st[p[1]].id \in conn_set /\ st[p[2]].id \notin conn_set}
        d == [p \in cand |-> StationDist(st[p[1]], st[p[2]])]
        dmin == CHOOSE m \in Range(d) : \A e \in Range(d) : m <= e
        closest == {p \in cand : d[p] = dmin}
    IN  IF cand = {} THEN <<>>
        ELSE CHOOSE p \in closest :
                \A q \in closest : p[1] < q[1] \/ (p[1] = q[1] /\ p[2] <= q[2])

\* one iteration of the while loop: the new connection list and connected set
BackboneIter(st, conn_set, conns) ==
    LET bp == best_pair(st, conn_set)
    IN  IF bp = <<>> THEN <<conn_set, conns>>
        ELSE <<conn_set \cup {st[bp[2]].id},
               Append(conns, Connection(st[bp[1]].id, st[bp[2]].id,
                                        StationDist(st[bp[1]], st[bp[2]]) * 120))>>

\* while len(connected) < len(stations); a pass that finds no pair changes
\* nothing, and the loop would not end: the model stops there
RECURSIVE BackboneLoop(_, _, _)
BackboneLoop(st, conn_set, conns) ==
    IF Cardinality(conn_set) >= Len(st) \/ best_pair(st, conn_set) = <<>>
    THEN conns
    ELSE LET r == BackboneIter(st, conn_set, conns)
         IN  BackboneLoop(st, r[1], r[2])

\* mutant: the connected set starts empty
BackboneNoRoot(st, conns) == BackboneLoop(st, {}, conns)

Backbone(st, conns) ==
    BackboneLoop(st, IF st = <<>> THEN {} ELSE {st[1].id}, conns)

\* mutant: no connection is ever found
existing_never(conns, a, b) == FALSE

\* any(... for c in connections): a connection between the two ids, either way
existing(conns, a, b) ==
    \E k \in DOMAIN conns :
        \/ conns[k].from = a /\ conns[k].to = b
        \/ conns[k].from = b /\ conns[k].to = a

\* mutant: the walk time gets the opposite sign
walk_time_negated(distance) == 0 - Max(3, (distance * 100) \div 60)

\* max(3, int(distance * 100 / 60))
walk_time(distance) == Max(3, (distance * 100) \div 60)

\* the tests of the loop body on the pair p of indices: the types differ
\* (otherwise continue) and distance <= 2
walk_pair(st, p) ==
    /\ st[p[1]].type # st[p[2]].type
    /\ StationDist(st[p[1]], st[p[2]]) <= 2

\* the indices in ps of the pairs whose connection the double loop appends.
\* When the loop reaches a pair, `connections` holds the list it started with
\* and the connections it appended for earlier pairs, and an earlier pair that
\* passes the tests and joins the same two ids has either been appended or
\* met a connection that is still there: `existing` is true of the list the
\* loop started with, or of the connection of such an earlier pair
WalkLoop(st, ps, conns) ==
    SelectSeq([k \in DOMAIN ps |-> k], LAMBDA k :
        /\ walk_pair(st, ps[k])
        /\ ~ existing(conns, st[ps[k][1]].id, st[ps[k][2]].id)
        /\ \A j \in 1 .. (k - 1) :
              walk_pair(st, ps[j])
                => ~ existing(<<Connection(st[ps[j][1]].id, st[ps[j][2]].id, 0)>>,
                              st[ps[k][1]].id, st[ps[k][2]].id))

LocalWalking(st, conns) ==
    LET ps == AllPairs(Len(st))
        ks == WalkLoop(st, ps, conns)
    IN  conns \o [n \in DOMAIN ks |->
                     Connection(st[ps[ks[n]][1]].id, st[ps[ks[n]][2]].id,
                                walk_time(StationDist(st[ps[ks[n]][1]],
                                                      st[ps[ks[n]][2]])))]

-----------------------------------------------------------------------------
(* _verify_connectivity, _ensure_connectivity *)

\* graph[a]: the adjacency sets built from the connection list
Neighbours(conns, a) ==
    {conns[k].to : k \in {j \in DOMAIN conns : conns[j].from = a}}
      \cup {conns[k].from : k \in {j \in DOMAIN conns : conns[j].to = a}}

\* the set a breadth-first search visits from the ids in visited
RECURSIVE Reach(_, _)
Reach(conns, visited) ==
    LET more == UNION {Neighbours(conns, a) : a \in visited} \ visited
    IN  IF more = {} THEN visited ELSE Reach(conns, visited \cup more)

verify_connectivity(st, conns) ==
    IF st = <<>> THEN TRUE
    ELSE Cardinality(Reach(conns, {st[1].id}))
           = Cardinality({st[k].id : k \in DOMAIN st})

\* the components list: one BFS per station not visited yet, in list order
RECURSIVE ComponentsFrom(_, _, _, _)
ComponentsFrom(st, conns, k, visited) ==
    IF k > Len(st) THEN <<>>
    ELSE IF st[k].id \in visited
         THEN ComponentsFrom(st, conns, k + 1, visited)
         ELSE LET component == Reach(conns, {st[k].id}) \ visited
              IN  <<component>> \o ComponentsFrom(st, conns, k + 1, visited \cup component)

Components(st, conns) == ComponentsFrom(st, conns, 1, {})

\* station_dict[id]
StationOf(st, id) == st[CHOOSE k \in DOMAIN st : st[k].id = id]

\* min_dist after the four nested loops of one merge pass
ComponentDist(st, c1, c2) ==
    LET ds == {StationDist(StationOf(st, a), StationOf(st, b)) : a \in c1, b \in c2}
    IN  CHOOSE d \in ds : \A e \in ds : d <= e

\* mutant: the first two components are joined, by any of their pairs
best_connections_first(st, comps) ==
    {[s1_id |-> e[1], s2_id |-> e[2], comp1_idx |-> 1, comp2_idx |-> 2,
      min_dist |-> StationDist(StationOf(st, e[1]), StationOf(st, e[2]))] :
        e \in comps[1] \X comps[2]}

\* the values best_connection, comp1_idx, comp2_idx can have after one pass:
\* the first pair of components (i < j, in loop order) at the minimal distance,
\* and in it the first closest pair of stations in the iteration order of the
\* two sets, which is not determined: any closest pair of the two components
best_connections(st, comps) ==
    LET cps == {p \in (1 .. Len(comps)) \X (1 .. Len(comps)) : p[1] < p[2]}
        cd == [p \in cps |-> ComponentDist(st, comps[p[1]], comps[p[2]])]
        dmin == CHOOSE m \in Range(cd) : \A e \in Range(cd) : m <= e
        closest == {p \in cps : cd[p] = dmin}
        bp == CHOOSE p \in closest :
                 \A q \in closest : p[1] < q[1] \/ (p[1] = q[1] /\ p[2] <= q[2])
    IN  {[s1_id |-> e[1], s2_id |-> e[2], comp1_idx |-> bp[1], comp2_idx |-> bp[2],
          min_dist |-> dmin] :
            e \in {e \in comps[bp[1]] \X comps[bp[2]] :
                      StationDist(StationOf(st, e[1]), StationOf(st, e[2])) = dmin}}

\* components[comp1_idx].update(components[comp2_idx]); components.pop(comp2_idx)
MergeComponents(comps, i1, i2) ==
    LET upd == [comps EXCEPT ![i1] = comps[i1] \cup comps[i2]]
    IN  [k \in 1 .. (Len(comps) - 1) |-> IF k < i2 THEN upd[k] ELSE upd[k + 1]]

\* mutant: the components are merged and no connection is appended
MergeIterNoEdge(st, comps, conns) ==
    {<<MergeComponents(comps, b.comp1_idx, b.comp2_idx), conns>> :
        b \in best_connections(st, comps)}

\* one iteration of "while len(components) > 1": the possible outcomes
MergeIter(st, comps, conns) ==
    {<<MergeComponents(comps, b.comp1_idx, b.comp2_idx),
       Append(conns, Connection(b.s1_id, b.s2_id, b.min_dist * 120))>> :
        b \in best_connections(st, comps)}

RECURSIVE MergeLoop(_, _, _)
MergeLoop(st, comps, conns) ==
    IF Len(comps) <= 1 THEN {conns}
    ELSE UNION {MergeLoop(st, r[1], r[2]) : r \in MergeIter(st, comps, conns)}

\* mutant: only the bridging connections added are returned
ensure_connectivity_added(st, conns) ==
    IF verify_connectivity(st, conns) THEN {<<>>}
    ELSE {SubSeq(r, Len(conns) + 1, Len(r)) :
             r \in MergeLoop(st, Components(st, conns), conns)}

\* the connection lists _ensure_connectivity can return
ensure_connectivity(st, conns) ==
    IF verify_connectivity(st, conns) THEN {conns}
    ELSE MergeLoop(st, Components(st, conns), conns)

\* lines 162-185: mark the transfer stations, add the transfer connections
TransferEdges ==
    /\ pc = "transfer"
    /\ stations' = MarkTransfers(stations)
    /\ connections' = TransferConnections(stations)
    /\ pc' = "backbone"
    /\ UNCHANGED <<gridSize, error, grid, zone_k, zones, station_positions,
                   station_id, i, placed, routes>>
    /\ UNCHANGED loopVars

\* lines 187-212: the spanning backbone
SpanningBackbone ==
    /\ pc = "backbone"
    /\ connections' = Backbone(stations, connections)
    /\ pc' = "walking"
    /\ UNCHANGED <<gridSize, error, grid, zone_k, zones, stations, station_positions,
                   station_id, i, placed, routes>>
    /\ UNCHANGED loopVars

\* lines 214-234: walking connections of nearby different-mode stations
WalkingEdges ==
    /\ pc = "walking"
    /\ connections' = LocalWalking(stations, connections)
    /\ pc' = "repair"
    /\ UNCHANGED <<gridSize, error, grid, zone_k, zones, stations, station_positions,
                   station_id, i, placed, routes>>
    /\ UNCHANGED loopVars

\* lines 236-239: connections = self._ensure_connectivity(stations, connections)
EnsureConnectivity ==
    /\ pc = "repair"
    /\ connections' \in ensure_connectivity(stations, connections)
    /\ pc' = "routes"
    /\ UNCHANGED <<gridSize, error, grid, zone_k, zones, stations, station_positions,
                   station_id, i, placed, routes>>
    /\ UNCHANGED loopVars

-----------------------------------------------------------------------------
(* _generate_routes and the route strategies *)

\* sorted(l, key=...): stable, ascending; key is a function on DOMAIN l
StableSort(l, key) ==
    LET rank(k) == 1 + Cardinality({j \in DOMAIN l :
                        key[j] < key[k] \/ (key[j] = key[k] /\ j < k)})
    IN  [r \in 1 .. Len(l) |-> l[CHOOSE k \in DOMAIN l : rank(k) = r]]

\* l[start::2], start 0-based
EveryOther(l, start) ==
    IF Len(l) <= start THEN <<>>
    ELSE [k \in 1 .. ((Len(l) - start + 1) \div 2) |-> l[start + 2 * (k - 1) + 1]]

\* the index of min(l, key=...): the first minimal element
FirstMin(l, key) ==
    CHOOSE k \in DOMAIN l :
        \A j \in DOMAIN l : key[k] < key[j] \/ (key[k] = key[j] /\ k <= j)

\* mutant: the head of the list is removed, whatever v is
RemoveHead(l, v) == Tail(l)

\* list.remove(v): without the first element equal to v
RemoveFirst(l, v) ==
    LET m == CHOOSE k \in DOMAIN l : l[k] = v /\ \A j \in 1 .. (k - 1) : l[j] # v
    IN  [k \in 1 .. (Len(l) - 1) |-> IF k < m THEN l[k] ELSE l[k + 1]]

\* mutant: the nearest station is not removed from remaining
NearestIterKeep(ord, rem) ==
    LET current == ord[Len(ord)]
        nearest == rem[FirstMin(rem, [k \in DOMAIN rem |-> StationDist(rem[k], current)])]
    IN  <<Append(ord, nearest), rem>>

\* one iteration of the nearest-neighbour loop: <<ordered, remaining>> after it
NearestIter(ord, rem) ==
    LET current == ord[Len(ord)]
        nearest == rem[FirstMin(rem, [k \in DOMAIN rem |-> StationDist(rem[k], current)])]
    IN  <<Append(ord, nearest), RemoveFirst(rem, nearest)>>

RECURSIVE NearestLoop(_, _)
NearestLoop(ord, rem) ==
    IF rem = <<>> THEN ord
    ELSE LET r == NearestIter(ord, rem) IN NearestLoop(r[1], r[2])

order_stations_by_distance(st) ==
    IF Len(st) <= 2 THEN st
    ELSE LET first == st[FirstMin(st, [k \in DOMAIN st |-> st[k].x])]
         IN  NearestLoop(<<first>>, SelectSeq(st, LAMBDA s : s # first))

\* keep a candidate route only "if len(...) >= 2"
KeepLong(rs) == SelectSeq(rs, LAMBDA r : Len(r) >= 2)

\* mutant: both axis routes are put in nearest-neighbour order
create_axial_routes_ordered(st) ==
    IF Len(st) < 3 THEN <<order_stations_by_distance(st)>>
    ELSE LET x_sorted == StableSort(st, [k \in DOMAIN st |-> st[k].x])
             y_sorted == StableSort(st, [k \in DOMAIN st |-> st[k].y])
             kept == KeepLong(<<EveryOther(x_sorted, 0), EveryOther(y_sorted, 1)>>)
         IN  [k \in 1 .. Len(kept) |-> order_stations_by_distance(kept[k])]

create_axial_routes(st) ==
    IF Len(st) < 3 THEN <<order_stations_by_distance(st)>>
    ELSE LET x_sorted == StableSort(st, [k \in DOMAIN st |-> st[k].x])
             y_sorted == StableSort(st, [k \in DOMAIN st |-> st[k].y])
         IN  KeepLong(<<EveryOther(x_sorted, 0), EveryOther(y_sorted, 1)>>)

\* mutant: the windows do not overlap
create_linear_routes_disjoint(st) ==
    IF Len(st) < 2 THEN <<>>
    ELSE LET num_routes == Min(2, Max(1, Len(st) \div 3))
             stations_per_route == Len(st) \div num_routes
             window(r) == Slice(st, r * stations_per_route,
                                r * stations_per_route + stations_per_route)
             kept == KeepLong([r \in 1 .. num_routes |-> window(r - 1)])
         IN  [k \in 1 .. Len(kept) |-> order_stations_by_distance(kept[k])]

create_linear_routes(st) ==
    IF Len(st) < 2 THEN <<>>
    ELSE LET num_routes == Min(2, Max(1, Len(st) \div 3))
             stations_per_route == Len(st) \div num_routes
             window(r) == Slice(st, r * stations_per_route,
                                r * stations_per_route + stations_per_route + 2)
             kept == KeepLong([r \in 1 .. num_routes |-> window(r - 1)])
         IN  [k \in 1 .. Len(kept) |-> order_stations_by_distance(kept[k])]

create_connecting_routes(st) ==
    IF Len(st) < 2 THEN <<>>
    ELSE LET num_routes == Min(3, Max(1, Len(st) \div 4))
             stations_per_route == Max(3, Len(st) \div num_routes)
             start_idx(r) == (r * Len(st)) \div num_routes
             selected(r) == Slice(st, start_idx(r), start_idx(r) + stations_per_route)
             kept == KeepLong([r \in 1 .. num_routes |-> selected(r - 1)])
         IN  [k \in 1 .. Len(kept) |-> order_stations_by_distance(kept[k])]

create_realistic_routes(st, mode) ==
    IF Len(st) < 2 THEN <<>>
    ELSE IF mode = "metro" THEN create_axial_routes(st)
    ELSE IF mode = "tram" THEN create_linear_routes(st)
    ELSE create_connecting_routes(st)

get_route_color(mode, route_num) ==
    LET mode_colors ==
            IF mode = "metro" THEN <<"#FF0000", "#00FF00", "#0000FF">>
            ELSE IF mode = "tram" THEN <<"#FFA500", "#800080", "#008080">>
            ELSE IF mode = "bus" THEN <<"#FFD700", "#FF69B4", "#32CD32">>
            ELSE <<"#000000">>
    IN  mode_colors[(route_num % Len(mode_colors)) + 1]

\* the keys of stations_by_type, in insertion order
ModesOf(st) ==
    LET first == SelectSeq([k \in 1 .. Len(st) |-> k],
                           LAMBDA k : \A j \in 1 .. (k - 1) : st[j].type # st[k].type)
    IN  [m \in 1 .. Len(first) |-> st[first[m]].type]

\* mutant: the stations are not grouped by type
RoutesOfModeUngrouped(st, mode) ==
    LET routes_for_mode == IF Len(st) < 2 THEN <<>>
                           ELSE create_realistic_routes(st, mode)
        idx == SelectSeq([k \in 1 .. Len(routes_for_mode) |-> k],
                         LAMBDA k : Len(routes_for_mode[k]) >= 2)
    IN  [k \in 1 .. Len(idx) |->
            [mode |-> mode,
             stations |-> [j \in 1 .. Len(routes_for_mode[idx[k]]) |->
                              routes_for_mode[idx[k]][j].id],
             color |-> get_route_color(mode, idx[k] - 1)]]

\* the routes of one mode that pass "len(route_stations) >= 2", each with the
\* index it has in routes_for_mode
RoutesOfMode(st, mode) ==
    LET mode_stations == SelectSeq(st, LAMBDA s : s.type = mode)
        routes_for_mode == IF Len(mode_stations) < 2 THEN <<>>
                           ELSE create_realistic_routes(mode_stations, mode)
        idx == SelectSeq([k \in 1 .. Len(routes_for_mode) |-> k],
                         LAMBDA k : Len(routes_for_mode[k]) >= 2)
    IN  [k \in 1 .. Len(idx) |->
            [mode |-> mode,
             stations |-> [j \in 1 .. Len(routes_for_mode[idx[k]]) |->
                              routes_for_mode[idx[k]][j].id],
             color |-> get_route_color(mode, idx[k] - 1)]]

generate_routes(st) ==
    LET modes == ModesOf(st)
        all == Concat([m \in 1 .. Len(modes) |-> RoutesOfMode(st, modes[m])])
    IN  [k \in 1 .. Len(all) |->
            [id |-> k - 1, mode |-> all[k].mode, stations |-> all[k].stations,
             color |-> all[k].color]]

\* routes = self._generate_routes(stations), and the return of the city
GenerateRoutes ==
    /\ pc = "routes"
    /\ routes' = generate_routes(stations)
    /\ pc' = "done"
    /\ UNCHANGED <<gridSize, error, grid, zone_k, zones, stations, station_positions,
                   station_id, i, placed, connections>>
    /\ UNCHANGED loopVars

-----------------------------------------------------------------------------
(* The loops of the generator, one iteration per step, each started on *)
(* bounded inputs of its own                                           *)

genVars == <<error, grid, zone_k, zones, station_id, i, placed, routes>>

\* the cells of the input stations: two rows of the grid
LoopCells == (0 .. MaxCoord) \X (0 .. 1)

\* station lists with ids 0 .. n - 1, as one mode's list is
LoopStations ==
    UNION {{[k \in 1 .. n |-> Station(k - 1, f[k][1], f[k][2], "bus")] :
               f \in [1 .. n -> LoopCells]} : n \in 0 .. MaxStations}

\* connection lists over the ids 0 .. n - 1: the sublists of the list of all pairs
LoopConnections(n) ==
    {LET ps == SelectSeq(AllPairs(n), LAMBDA p : p \in S)
     IN  [k \in 1 .. Len(ps) |-> Connection(ps[k][1] - 1, ps[k][2] - 1, 5)] :
        S \in SUBSET Range(AllPairs(n))}

\* for _ in range(max_attempts): sample a cell, return it unless too close
FindAttempt ==
    /\ pc = "find"
    /\ attempts < max_attempts
    /\ \E x \in RandInt(0, gridSize - 1), y \in RandInt(0, gridSize - 1) :
          /\ sample' = <<x, y>>
          /\ IF ~ is_too_close(x, y, station_positions, min_dist_arg)
             THEN /\ found' = <<x, y>>
                  /\ pc' = "exit"
                  /\ attempts' = attempts
             ELSE /\ attempts' = attempts + 1
                  /\ UNCHANGED <<found, pc>>
    /\ UNCHANGED <<gridSize, stations, station_positions, connections, min_dist_arg,
                   connected, components, ordered, remaining>>
    /\ UNCHANGED genVars

\* line 105: after max_attempts rejected samples, return a fresh random cell
FindFallback ==
    /\ pc = "find"
    /\ attempts >= max_attempts
    /\ \E x \in RandInt(0, gridSize - 1), y \in RandInt(0, gridSize - 1) :
          found' = <<x, y>>
    /\ pc' = "exit"
    /\ UNCHANGED <<gridSize, stations, station_positions, connections, min_dist_arg,
                   attempts, sample, connected, components, ordered, remaining>>
    /\ UNCHANGED genVars

\* lines 188-190: connected = {stations[0]["id"]}
BackboneStart ==
    /\ pc = "backbone_start"
    /\ connected' = IF stations = <<>> THEN {} ELSE {stations[1].id}
    /\ pc' = "backbone"
    /\ UNCHANGED <<gridSize, stations, station_positions, connections, min_dist_arg,
                   attempts, sample, found, components, ordered, remaining>>
    /\ UNCHANGED genVars

\* one iteration of "while len(connected) < len(stations)"
BackboneStep ==
    /\ pc = "backbone"
    /\ Cardinality(connected) < Len(stations)
    /\ LET r == BackboneIter(stations, connected, connections)
       IN  connected' = r[1] /\ connections' = r[2]
    /\ UNCHANGED <<gridSize, pc, stations, station_positions, min_dist_arg,
                   attempts, sample, found, components, ordered, remaining>>
    /\ UNCHANGED genVars

BackboneExit ==
    /\ pc = "backbone"
    /\ ~ (Cardinality(connected) < Len(stations))
    /\ pc' = "exit"
    /\ UNCHANGED <<gridSize, stations, station_positions, connections, min_dist_arg,
                   attempts, sample, found, connected, components, ordered, remaining>>
    /\ UNCHANGED genVars

\* lines 445-478: return at once when connected, else compute the components
RepairStart ==
    /\ pc = "repair_start"
    /\ IF verify_connectivity(stations, connections)
       THEN pc' = "exit" /\ components' = components
       ELSE pc' = "merge" /\ components' = Components(stations, connections)
    /\ UNCHANGED <<gridSize, stations, station_positions, connections, min_dist_arg,
                   attempts, sample, found, connected, ordered, remaining>>
    /\ UNCHANGED genVars

\* one iteration of "while len(components) > 1"
RepairStep ==
    /\ pc = "merge"
    /\ Len(components) > 1
    /\ \E r \in MergeIter(stations, components, connections) :
          components' = r[1] /\ connections' = r[2]
    /\ UNCHANGED <<gridSize, pc, stations, station_positions, min_dist_arg,
                   attempts, sample, found, connected, ordered, remaining>>
    /\ UNCHANGED genVars

\* line 512: return connections
RepairExit ==
    /\ pc = "merge"
    /\ ~ (Len(components) > 1)
    /\ pc' = "exit"
    /\ UNCHANGED <<gridSize, stations, station_positions, connections, min_dist_arg,
                   attempts, sample, found, connected, components, ordered, remaining>>
    /\ UNCHANGED genVars

\* lines 371-376: the early return, or the start of the ordering
OrderStart ==
    /\ pc = "order_start"
    /\ IF Len(stations) <= 2
       THEN /\ ordered' = stations
            /\ remaining' = remaining
            /\ pc' = "exit"
       ELSE LET first == stations[FirstMin(stations, [k \in DOMAIN stations |-> stations[k].x])]
            IN  /\ ordered' = <<first>>
                /\ remaining' = SelectSeq(stations, LAMBDA s : s # first)
                /\ pc' = "order"
    /\ UNCHANGED <<gridSize, stations, station_positions, connections, min_dist_arg,
                   attempts, sample, found, connected, components>>
    /\ UNCHANGED genVars

\* one iteration of "while remaining"
OrderStep ==
    /\ pc = "order"
    /\ remaining # <<>>
    /\ LET r == NearestIter(ordered, remaining)
       IN  ordered' = r[1] /\ remaining' = r[2]
    /\ UNCHANGED <<gridSize, pc, stations, station_positions, connections, min_dist_arg,
                   attempts, sample, found, connected, components>>
    /\ UNCHANGED genVars

\* line 386: return ordered
OrderExit ==
    /\ pc = "order"
    /\ remaining = <<>>
    /\ pc' = "exit"
    /\ UNCHANGED <<gridSize, stations, station_positions, connections, min_dist_arg,
                   attempts, sample, found, connected, components, ordered, remaining>>
    /\ UNCHANGED genVars

\* the entry of one of the four loops
LoopInit ==
    /\ gridSize \in 3 .. MaxGrid
    /\ error = "none"
    /\ grid = [c \in Cells(gridSize) |-> "None"]
    /\ zone_k = 1
    /\ zones = <<>>
    /\ station_id = 0
    /\ i = 0
    /\ placed = <<>>
    /\ routes = <<>>
    /\ attempts = 0
    /\ sample = <<>>
    /\ found = <<>>
    /\ connected = {}
    /\ components = <<>>
    /\ ordered = <<>>
    /\ remaining = <<>>
    /\ \/ /\ pc = "find"
          /\ stations = <<>>
          /\ connections = <<>>
          /\ \E st \in {s \in LoopStations : Len(s) < MaxStations} :
                station_positions = [k \in DOMAIN st |-> <<st[k].x, st[k].y>>]
          /\ min_dist_arg \in {min_distance(gridSize), min_distance(gridSize) \div 2,
                           min_distance(gridSize) \div 3}
       \/ /\ pc \in {"backbone_start", "order_start"}
          /\ gridSize = MaxGrid
          /\ stations \in LoopStations
          /\ connections = <<>>
          /\ station_positions = <<>>
          /\ min_dist_arg = 0
       \/ /\ pc = "repair_start"
          /\ gridSize = MaxGrid
          /\ stations \in LoopStations
          /\ connections \in LoopConnections(Len(stations))
          /\ station_positions = <<>>
          /\ min_dist_arg = 0

LoopNext ==
    \/ FindAttempt
    \/ FindFallback
    \/ BackboneStart
    \/ BackboneStep
    \/ BackboneExit
    \/ RepairStart
    \/ RepairStep
    \/ RepairExit
    \/ OrderStart
    \/ OrderStep
    \/ OrderExit

\* every loop is run to its end: a step is taken whenever one is possible
LoopSpec == LoopInit /\ [][LoopNext]_vars /\ WF_vars(LoopNext)

-----------------------------------------------------------------------------
(* _generate_zones on its own, on the grid of size MaxGrid + 1 *)

\* the state in which _generate_zones is entered
ZoneInit ==
    /\ gridSize = MaxGrid + 1
    /\ pc = "zones"
    /\ error = "none"
    /\ grid = [c \in Cells(gridSize) |-> "None"]
    /\ zone_k = 1
    /\ zones = <<>>
    /\ stations = <<>>
    /\ station_positions = <<>>
    /\ station_id = 0
    /\ i = 0
    /\ placed = <<>>
    /\ connections = <<>>
    /\ routes = <<>>
    /\ min_dist_arg = 0
    /\ attempts = 0
    /\ sample = <<>>
    /\ found = <<>>
    /\ connected = {}
    /\ components = <<>>
    /\ ordered = <<>>
    /\ remaining = <<>>

ZoneNext ==
    \/ ZoneCluster
    \/ ZoneFill

ZoneSpec == ZoneInit /\ [][ZoneNext]_vars

-----------------------------------------------------------------------------
(* _generate_stations on its own, on the grids above MaxGrid *)

\* the state in which _generate_stations is entered: _generate_zones has
\* returned (every cluster centred on one cell, the fill all residential)
StationInit ==
    /\ gridSize \in (MaxGrid + 1) .. MaxCountGrid
    /\ pc = "metro"
    /\ error = "none"
    /\ grid = [c \in Cells(gridSize) |-> "residential"]
    /\ zone_k = Len(zone_types) + 1
    /\ zones = ZoneList(gridSize, grid)
    /\ stations = <<>>
    /\ station_positions = <<>>
    /\ station_id = 0
    /\ i = 0
    /\ placed = <<>>
    /\ connections = <<>>
    /\ routes = <<>>
    /\ min_dist_arg = 0
    /\ attempts = 0
    /\ sample = <<>>
    /\ found = <<>>
    /\ connected = {}
    /\ components = <<>>
    /\ ordered = <<>>
    /\ remaining = <<>>

StationNext ==
    \/ PlaceMetro
    \/ PlaceTram
    \/ PlaceBus
    \/ ReturnStations

StationSpec == StationInit /\ [][StationNext]_vars

-----------------------------------------------------------------------------
(* _generate_connections and _generate_routes on the station lists of a   *)
(* grid of size MaxGrid + 1 whose stations stand on two cells             *)

\* the station lists _generate_stations can return on a grid of size g with
\* every station on (0, 0) or (d, 0): the first metro cell is an accepted
\* sample, and any later cell is an accepted sample or the fallback of a
\* search that rejected the occupied cell max_attempts times
TwoCellStations(g, d) ==
    LET n == station_counts(g)
        type(k) == IF k <= n.metro THEN "metro"
                   ELSE IF k <= n.metro + n.tram THEN "tram" ELSE "bus"
        total == n.metro + n.tram + n.bus
    IN  {[k \in 1 .. total |-> Station(k - 1, f[k], 0, type(k))] :
            f \in [1 .. total -> {0, d}]}

\* the state in which _generate_connections is entered
ConnInit ==
    /\ gridSize = MaxGrid + 1
    /\ pc = "transfer"
    /\ error = "none"
    /\ grid = [c \in Cells(gridSize) |-> "residential"]
    /\ zone_k = Len(zone_types) + 1
    /\ zones = ZoneList(gridSize, grid)
    /\ \E d \in 1 .. (gridSize - 1) : stations \in TwoCellStations(gridSize, d)
    /\ station_positions = <<>>
    /\ station_id = Len(stations)
    /\ i = 0
    /\ placed = <<>>
    /\ connections = <<>>
    /\ routes = <<>>
    /\ min_dist_arg = 0
    /\ attempts = 0
    /\ sample = <<>>
    /\ found = <<>>
    /\ connected = {}
    /\ components = <<>>
    /\ ordered = <<>>
    /\ remaining = <<>>

ConnNext ==
    \/ TransferEdges
    \/ SpanningBackbone
    \/ WalkingEdges
    \/ EnsureConnectivity
    \/ GenerateRoutes

ConnSpec == ConnInit /\ [][ConnNext]_vars

-----------------------------------------------------------------------------
(* _generate_connections and _generate_routes on the station lists of the *)
(* grids up to MaxRouteGrid whose stations repeat three cells             *)

PatternCells == {<<0, 1>>, <<1, 0>>, <<2, 2>>}

\* the station lists _generate_stations can return on a grid of size g with
\* station number k on the cell f[k % 3]: as for TwoCellStations, every cell
\* is an accepted sample or the fallback of a search
PatternStations(g) ==
    LET n == station_counts(g)
        type(k) == IF k <= n.metro THEN "metro"
                   ELSE IF k <= n.metro + n.tram THEN "tram" ELSE "bus"
        total == n.metro + n.tram + n.bus
    IN  {[k \in 1 .. total |->
             Station(k - 1, f[(k - 1) % 3][1], f[(k - 1) % 3][2], type(k))] :
            f \in [0 .. 2 -> PatternCells]}

\* the state in which _generate_connections is entered
RouteInit ==
    /\ gridSize \in 3 .. MaxRouteGrid
    /\ pc = "transfer"
    /\ error = "none"
    /\ grid = [c \in Cells(gridSize) |-> "residential"]
    /\ zone_k = Len(zone_types) + 1
    /\ zones = ZoneList(gridSize, grid)
    /\ stations \in PatternStations(gridSize)
    /\ station_positions = <<>>
    /\ station_id = Len(stations)
    /\ i = 0
    /\ placed = <<>>
    /\ connections = <<>>
    /\ routes = <<>>
    /\ min_dist_arg = 0
    /\ attempts = 0
    /\ sample = <<>>
    /\ found = <<>>
    /\ connected = {}
    /\ components = <<>>
    /\ ordered = <<>>
    /\ remaining = <<>>

RouteSpec == RouteInit /\ [][ConnNext]_vars

-----------------------------------------------------------------------------
(* Every step that appends connections: _generate_connections on the      *)
(* station lists of RouteInit, _ensure_connectivity on the inputs of       *)
(* LoopInit                                                                *)

EdgeInit ==
    \/ RouteInit
    \/ LoopInit /\ pc = "repair_start"

EdgeNext ==
    \/ ConnNext
    \/ RepairStart
    \/ RepairStep
    \/ RepairExit

EdgeSpec == EdgeInit /\ [][EdgeNext]_vars

-----------------------------------------------------------------------------
(* Properties of the generated city *)

StationIds == {stations[k].id : k \in DOMAIN stations}
SameCell(s1, s2) == s1.x = s2.x /\ s1.y = s2.y
\* the unordered pair of stations a connection joins
EdgePair(c) == {c.from, c.to}
\* generate_random_city has returned the city
Returned == pc = "done"
\* _generate_connections has returned
ConnectionsBuilt == pc \in {"routes", "done"}

\* C1: in a returned city the connection graph is connected: the traversal
\* from any station reaches every station id
C1_Connected ==
    Returned => \A a \in StationIds : StationIds \subseteq Reach(connections, {a})

C1_Witness ==
    /\ Returned
    /\ \E j, k \in DOMAIN stations : ~ SameCell(stations[j], stations[k])
    /\ \A a \in StationIds : StationIds \subseteq Reach(connections, {a})

\* C2: in a returned city no unordered pair of stations is joined by more
\* than one connection record
C2_NoDuplicateEdges ==
    Returned => \A j, k \in DOMAIN connections :
                    j # k => EdgePair(connections[j]) # EdgePair(connections[k])

\* C3: in a returned city a station is a transfer station if and only if
\* another station of a different mode stands on its cell
C3_TransferIffOtherMode ==
    Returned => \A k \in DOMAIN stations :
                    stations[k].is_transfer
                      <=> \E j \in DOMAIN stations :
                             /\ j # k
                             /\ SameCell(stations[j], stations[k])
                             /\ stations[j].type # stations[k].type

\* C4: for every grid size >= 1 zone generation completes and returns one
\* zone record per cell of the grid, each with one of the three categories
C4_ZonesCoverGrid ==
    gridSize >= 1 =>
        /\ pc # "error"
        /\ pc # "zones" =>
              /\ Len(zones) = gridSize * gridSize
              /\ \A c \in Cells(gridSize) :
                    Cardinality({k \in DOMAIN zones : <<zones[k].x, zones[k].y>> = c}) = 1
              /\ \A k \in DOMAIN zones : zones[k].type \in Range(zone_types)

\* C5: every route of a returned city has at least two stations, and each id
\* it lists is the id of a station of the route's mode
C5_RouteValidity ==
    Returned => \A r \in DOMAIN routes :
                    /\ Len(routes[r].stations) >= 2
                    /\ \A n \in DOMAIN routes[r].stations :
                          \E k \in DOMAIN stations :
                             /\ stations[k].id = routes[r].stations[n]
                             /\ stations[k].type = routes[r].mode

C5_Witness ==
    /\ Returned
    /\ {routes[r].mode : r \in DOMAIN routes} = {"metro", "tram", "bus"}

\* C6: no two stations share an id, at any point of the placement and after it
C6_UniqueIds ==
    \A j, k \in DOMAIN stations : j # k => stations[j].id # stations[k].id

C6_Witness ==
    /\ pc = "stations_return"
    /\ {"sample", "fallback", "coloc"} \subseteq Range(placed)
    /\ {stations[k].type : k \in DOMAIN stations} = {"metro", "tram", "bus"}

\* C7: once the connections are built, two different-mode stations on one
\* cell are both transfer stations joined by a connection of walk time 2,
\* and every station on a cell with two or more stations is a transfer station
C7_TransferEdges ==
    ConnectionsBuilt =>
        \A j, k \in DOMAIN stations :
            (j # k /\ SameCell(stations[j], stations[k])) =>
                /\ stations[j].is_transfer /\ stations[k].is_transfer
                /\ stations[j].type # stations[k].type =>
                      \E c \in DOMAIN connections :
                         /\ EdgePair(connections[c]) = {stations[j].id, stations[k].id}
                         /\ connections[c].walk_time = 2

C7_Witness ==
    /\ ConnectionsBuilt
    /\ \E j, k \in DOMAIN stations :
          /\ j # k
          /\ SameCell(stations[j], stations[k])
          /\ stations[j].type # stations[k].type
          /\ stations[j].is_transfer /\ stations[k].is_transfer
    /\ \E j, k \in DOMAIN stations :
          /\ j # k
          /\ SameCell(stations[j], stations[k])
          /\ \A m \in DOMAIN stations :
                SameCell(stations[m], stations[j]) => stations[m].type = stations[j].type

\* C9: with a grid size <= 0 generation ends in an error that signals the
\* violated precondition, before the zone-cluster loop is entered
C9_DegenerateInputRejected ==
    (gridSize <= 0 /\ pc # "zones") =>
        /\ pc = "error"
        /\ error = "PreconditionViolation"

\* C10: no loop of the generator can run forever: a position search rejects
\* at most max_attempts samples before it falls back, each backbone iteration
\* adds one station to the connected set, each repair iteration lowers the
\* component count by one, each nearest-neighbour iteration removes one
\* station from the remaining list, and every loop reaches its exit
C10_LoopsTerminate ==
    /\ [][/\ (pc = "find" /\ pc' = "find") =>
                attempts' = attempts + 1 /\ attempts' <= max_attempts
          /\ (pc = "backbone" /\ pc' = "backbone") =>
                /\ Cardinality(connected') = Cardinality(connected) + 1
                /\ connected \subseteq connected'
                /\ Cardinality(connected') <= Len(stations)
          /\ (pc = "merge" /\ pc' = "merge") =>
                Len(components') = Len(components) - 1 /\ Len(components') >= 1
          /\ (pc = "order" /\ pc' = "order") =>
                Len(remaining') = Len(remaining) - 1]_vars
    /\ <>(pc = "exit")

\* a position search that rejected max_attempts samples and fell back
C10_Witness ==
    /\ pc = "exit"
    /\ attempts = max_attempts
    /\ found # <<>>

\* the number of stations of one mode
TierCount(type) == Cardinality({k \in DOMAIN stations : stations[k].type = type})
\* the place of a mode in the order of the three placement loops
TierRank(type) == IF type = "metro" THEN 1 ELSE IF type = "tram" THEN 2 ELSE 3
\* the integer part of num / den, for num >= 0 and den > 0
IntPart(num, den) == CHOOSE m \in 0 .. num : den * m <= num /\ num < den * (m + 1)
\* _generate_stations has run its three loops
StationsPlaced == pc \in {"stations_return", "transfer"}

BackboneEdges ==
    SubSeq(connections, Len(TransferConnections(stations)) + 1, Len(connections))

\* C13: right after the backbone step the graph is connected by the backbone
\* edges alone: there are n - 1 of them for n stations, each goes from the
\* first station or the far end of an earlier backbone edge to a station not
\* reached before; the repair pass then finds the graph connected and
\* returns the connection list as it got it
C13_BackboneSpans ==
    /\ [](pc = "walking" =>
            /\ Len(BackboneEdges) = Len(stations) - 1
            /\ \A k \in DOMAIN BackboneEdges :
                  LET inside == {stations[1].id}
                                  \cup {BackboneEdges[j].to : j \in 1 .. (k - 1)}
                  IN  /\ BackboneEdges[k].from \in inside
                      /\ BackboneEdges[k].to \in StationIds \ inside
            /\ StationIds \subseteq Reach(BackboneEdges, {stations[1].id}))
    /\ [](pc = "repair" => verify_connectivity(stations, connections))
    /\ [][pc = "repair" => connections' = connections]_vars

\* the repair pass has returned a list whose backbone joined distinct cells
C13_Witness ==
    /\ pc = "routes"
    /\ \E k \in DOMAIN connections : connections[k].walk_time = 240
    /\ Len(connections) >= Len(stations) - 1

\* the connections a repair run was given: the input lists of the loop
\* specification have walk time 5, which no bridging connection has
InputConnections == SelectSeq(connections, LAMBDA c : c.walk_time = 5)
\* the last connection of a list
Last(l) == l[Len(l)]
\* the index of the component that holds a station id
ComponentOf(comps, id) == CHOOSE k \in DOMAIN comps : id \in comps[k]

\* C14: _ensure_connectivity returns a connected graph; it keeps the input
\* connections, in their order, at the front of the list; it adds k - 1
\* connections when the input graph has k components, and returns the input
\* list as it is when the input graph is connected
C14_RepairConnects ==
    /\ []((pc = "exit" /\ components # <<>>) =>
            /\ \A a \in StationIds : StationIds \subseteq Reach(connections, {a})
            /\ Len(connections) = Len(InputConnections)
                                    + Len(Components(stations, InputConnections)) - 1)
    /\ [][(pc \in {"repair_start", "merge"}) =>
            /\ Len(connections') >= Len(connections)
            /\ SubSeq(connections', 1, Len(connections)) = connections
            /\ (pc = "repair_start" /\ verify_connectivity(stations, connections)) =>
                  (pc' = "exit" /\ connections' = connections)]_vars

\* a repair run that was given a connection and had to add one
C14_Witness ==
    /\ pc = "exit"
    /\ Len(components) = 1
    /\ InputConnections # <<>>
    /\ Len(connections) > Len(InputConnections)

\* C15: each iteration of the merge loop appends one connection; it joins
\* two stations of different components whose distance is minimal over all
\* pairs of stations of different components, its walk time is 120 times
\* that distance, and the iteration replaces the two components by their
\* union and leaves the others as they are
C15_BridgeClosest ==
    [][(pc = "merge" /\ pc' = "merge") =>
          LET e == Last(connections')
              d == StationDist(StationOf(stations, e.from), StationOf(stations, e.to))
              c1 == ComponentOf(components, e.from)
              c2 == ComponentOf(components, e.to)
          IN  /\ connections' = Append(connections, e)
              /\ c1 # c2
              /\ \A j, k \in DOMAIN components :
                    j # k => \A a \in components[j], b \in components[k] :
                                d <= StationDist(StationOf(stations, a),
                                                 StationOf(stations, b))
              /\ e.walk_time = 120 * d
              /\ Len(components') = Len(components) - 1
              /\ Range(components')
                    = (Range(components) \ {components[c1], components[c2]})
                        \cup {components[c1] \cup components[c2]}]_vars

\* one merge iteration has acted and another one is due
C15_Witness ==
    /\ pc = "merge"
    /\ Len(components) > 1
    /\ Len(connections) > Len(InputConnections)

\* C16: when the merge loop of the repair pass ends, control passes to a
\* reachability check of the result before the list is returned
C16_VerifiedBeforeReturn ==
    [][(pc = "merge" /\ pc' # "merge") => pc' = "verify"]_vars

\* C17: the backbone starts its connected set with the first station; every
\* iteration appends one connection from a connected station to an
\* unconnected one whose distance is minimal over all pairs of a connected
\* and an unconnected station, with walk time 120 times the distance
C17_BackboneClosest ==
    [][/\ pc = "backbone_start" =>
             connected' = IF stations = <<>> THEN {} ELSE {stations[1].id}
       /\ (pc = "backbone" /\ pc' = "backbone") =>
             LET e == Last(connections')
                 d == StationDist(StationOf(stations, e.from),
                                  StationOf(stations, e.to))
             IN  /\ connections' = Append(connections, e)
                 /\ e.from \in connected
                 /\ e.to \in StationIds \ connected
                 /\ connected' = connected \cup {e.to}
                 /\ \A a \in connected, b \in StationIds \ connected :
                       d <= StationDist(StationOf(stations, a), StationOf(stations, b))
                 /\ e.walk_time = 120 * d
                 /\ SameCell(StationOf(stations, e.from), StationOf(stations, e.to))
                       => e.walk_time = 0]_vars

\* a backbone over three stations with a co-located pair and a distant one
C17_Witness ==
    /\ pc = "backbone"
    /\ Cardinality(connected) = 3
    /\ \E j, k \in DOMAIN connections :
          connections[j].walk_time = 0 /\ connections[k].walk_time > 120

\* some connection of the list joins the two ids, in either direction
Joined(conns, a, b) == \E k \in DOMAIN conns : EdgePair(conns[k]) = {a, b}

\* C18: once the walking step has run, every two stations of different
\* modes at distance <= 2 are joined by a connection; the walking step
\* appends a connection only for two such stations that no connection joined
\* before, never for two stations of one mode, and each connection it
\* appends has walk time max(3, integer part of distance * 100 / 60) = 3
C18_LocalWalking ==
    /\ []((pc = "repair" \/ ConnectionsBuilt) =>
            \A j, k \in DOMAIN stations :
                (/\ stations[j].type # stations[k].type
                 /\ StationDist(stations[j], stations[k]) <= 2)
                  => Joined(connections, stations[j].id, stations[k].id))
    /\ [][(pc = "walking") =>
            LET added == SubSeq(connections', Len(connections) + 1, Len(connections'))
            IN  /\ connections' = connections \o added
                /\ \A n \in DOMAIN added :
                      LET s1 == StationOf(stations, added[n].from)
                          s2 == StationOf(stations, added[n].to)
                          d == StationDist(s1, s2)
                      IN  /\ s1.type # s2.type
                          /\ d <= 2
                          /\ ~ Joined(connections, s1.id, s2.id)
                          /\ \A m \in 1 .. (n - 1) :
                                EdgePair(added[m]) # EdgePair(added[n])
                          /\ added[n].walk_time = Max(3, IntPart(d * 100, 60))
                          /\ added[n].walk_time = 3]_vars

\* the walking step has joined two stations one cell apart, for which
\* distance * 100 / 60 lies below the floor of 3
C18_Witness ==
    /\ pc = "repair"
    /\ \E k \in DOMAIN connections :
          /\ connections[k].walk_time = 3
          /\ StationDist(StationOf(stations, connections[k].from),
                         StationOf(stations, connections[k].to)) = 1

\* C19: a station placed by the co-location branch stands on the cell of an
\* earlier station of an earlier tier: a metro station for a tram station, a
\* metro or tram station for a bus station
C19_ColocatedWithEarlierTier ==
    \A k \in DOMAIN placed :
        placed[k] = "coloc" =>
            \E j \in 1 .. (k - 1) :
                /\ SameCell(stations[j], stations[k])
                /\ TierRank(stations[j].type) < TierRank(stations[k].type)

\* C20: a position search that rejected all max_attempts samples returns the
\* cell it sampled last
C20_FallbackIsLastSample ==
    (pc = "exit" /\ attempts = max_attempts /\ found # <<>>) => found = sample

\* C21: a metro station whose cell is an accepted sample lies at Manhattan
\* distance >= max(2, gridSize div 6) from every station placed before it;
\* when no metro station was placed by the fallback, the metro stations are
\* pairwise that far apart
C21_MetroSpacing ==
    LET metro == {k \in DOMAIN placed : stations[k].type = "metro"}
        far(j, k) == Abs(stations[j].x - stations[k].x)
                       + Abs(stations[j].y - stations[k].y)
                         >= Max(2, gridSize \div 6)
    IN  /\ \A k \in metro :
              placed[k] = "sample" => \A j \in 1 .. (k - 1) : far(j, k)
        /\ (\A k \in metro : placed[k] # "fallback") =>
              \A j, k \in metro : j # k => far(j, k)

\* two metro stations on accepted samples, and a third that fell back
C21_Witness ==
    /\ pc = "tram"
    /\ Len(placed) >= 3
    /\ placed[1] = "sample" /\ placed[2] = "sample" /\ placed[3] = "fallback"

\* the cells that have a category
Assigned == {c \in Cells(gridSize) : grid[c] # "None"}

\* C22: during zone generation a cell that has a category keeps it: the
\* cluster of a later category and the final fill write into unassigned
\* cells only, and the zone list records for every cell the category it got
C22_FirstWriterWins ==
    /\ [][(pc = "zones") =>
            \A c \in Cells(gridSize) : grid[c] # "None" => grid'[c] = grid[c]]_vars
    /\ [](pc = "metro" =>
            /\ Assigned = Cells(gridSize)
            /\ \A k \in DOMAIN zones : zones[k].type = grid[<<zones[k].x, zones[k].y>>])

\* the second cluster has been written and lost cells to the first one
C22_Witness ==
    /\ pc = "zones"
    /\ zone_k = 3
    /\ Cardinality({c \in Cells(gridSize) : grid[c] = "residential"}) = 9
    /\ Cardinality({c \in Cells(gridSize) : grid[c] = "commercial"}) \in 1 .. 8

\* C23: the cells the first cluster writes lie in a square of side
\* max(2, gridSize div 3) cells
C23_FootprintSide ==
    (pc = "zones" /\ zone_k = 2) =>
        \A c1, c2 \in Assigned :
            /\ Abs(c1[1] - c2[1]) < Max(2, gridSize \div 3)
            /\ Abs(c1[2] - c2[2]) < Max(2, gridSize \div 3)

\* C24: the ordering _order_stations_by_distance returns for a non-empty
\* list starts with a station of lowest x
C24_StartsLeftmost ==
    (pc = "exit" /\ ordered # <<>>) =>
        \A k \in DOMAIN stations : ordered[1].x <= stations[k].x

\* C25: the list _order_stations_by_distance returns holds every input
\* station exactly once, and for three or more stations every station after
\* the first is one of the nearest to its predecessor among those not placed
\* before it
C25_OrderIsPermutation ==
    (pc = "exit" /\ ordered # <<>>) =>
        /\ Len(ordered) = Len(stations)
        /\ \A k \in DOMAIN stations :
              Cardinality({j \in DOMAIN ordered : ordered[j] = stations[k]}) = 1
        /\ Len(stations) >= 3 =>
              \A k \in 2 .. Len(ordered) : \A j \in k .. Len(ordered) :
                  Abs(ordered[k].x - ordered[k - 1].x) + Abs(ordered[k].y - ordered[k - 1].y)
                    <= Abs(ordered[j].x - ordered[k - 1].x)
                         + Abs(ordered[j].y - ordered[k - 1].y)

\* an ordering of three stations, two of them on one cell, that differs from
\* the input order
C25_Witness ==
    /\ pc = "exit"
    /\ Len(ordered) = 3
    /\ ordered # stations
    /\ \E j, k \in DOMAIN stations : j # k /\ SameCell(stations[j], stations[k])

\* the stations and the routes of one mode, in list order
ModeStations(mode) == SelectSeq(stations, LAMBDA s : s.type = mode)
ModeRoutes(mode) == SelectSeq(routes, LAMBDA r : r.mode = mode)

\* C26: the bus routes of a returned city are at most 3, and every bus
\* station lies in exactly one of them
C26_BusRoutesPartition ==
    Returned =>
        /\ Len(ModeRoutes("bus")) <= 3
        /\ \A k \in DOMAIN ModeStations("bus") :
              Cardinality({r \in DOMAIN ModeRoutes("bus") :
                              \E n \in DOMAIN ModeRoutes("bus")[r].stations :
                                 ModeRoutes("bus")[r].stations[n]
                                   = ModeStations("bus")[k].id}) = 1

\* the station of the list with the given id
ById(st, id) == st[CHOOSE k \in DOMAIN st : st[k].id = id]

\* the id list ids is a nearest-neighbour ordering of the stations win: it
\* holds each of them once, starts with one of lowest x, and every later
\* station is one of the nearest to its predecessor among those from it on
IsNearestOrder(ids, win) ==
    /\ Len(ids) = Len(win)
    /\ \A k \in DOMAIN win :
          Cardinality({j \in DOMAIN ids : ids[j] = win[k].id}) = 1
    /\ \A k \in DOMAIN win : ById(win, ids[1]).x <= win[k].x
    /\ \A k \in 2 .. Len(ids) : \A j \in k .. Len(ids) :
          StationDist(ById(win, ids[k]), ById(win, ids[k - 1]))
            <= StationDist(ById(win, ids[j]), ById(win, ids[k - 1]))

\* C27: there is one tram route for fewer than 6 tram stations and there are
\* two otherwise; a single route orders the whole tram list, two routes
\* order a leading and a trailing index range of it that have exactly 2
\* stations in common and together hold every tram station
C27_TramWindows ==
    Returned =>
        LET T == ModeStations("tram")
            R == ModeRoutes("tram")
            len(r) == Len(R[r].stations)
        IN  /\ Len(R) = IF Len(T) < 6 THEN 1 ELSE 2
            /\ IsNearestOrder(R[1].stations, SubSeq(T, 1, len(1)))
            /\ Len(R) = 1 => len(1) = Len(T)
            /\ Len(R) = 2 =>
                  /\ IsNearestOrder(R[2].stations,
                                    SubSeq(T, Len(T) - len(2) + 1, Len(T)))
                  /\ len(1) + len(2) = Len(T) + 2

\* a city with two tram routes whose first route is not in list order
C27_Witness ==
    /\ Returned
    /\ Len(ModeRoutes("tram")) = 2
    /\ \E k \in DOMAIN ModeRoutes("tram")[1].stations :
          ModeRoutes("tram")[1].stations[k] # ModeStations("tram")[k].id

\* the place of station k of the list in the stable ascending sort by key
RankBy(st, key, k) ==
    1 + Cardinality({j \in DOMAIN st :
            key[j] < key[k] \/ (key[j] = key[k] /\ j < k)})

\* C28: with 3 or more metro stations the first metro route lists the
\* stations at the 1st, 3rd, 5th ... places of the list sorted by x, in that
\* order; the second lists those at the 2nd, 4th ... places of the list
\* sorted by y and exists only for 4 or more stations; no route repeats a
\* station
C28_MetroAxes ==
    Returned =>
        LET M == ModeStations("metro")
            R == ModeRoutes("metro")
            xs == [k \in DOMAIN M |-> M[k].x]
            ys == [k \in DOMAIN M |-> M[k].y]
        IN  Len(M) >= 3 =>
              /\ Len(R) = IF Len(M) = 3 THEN 1 ELSE 2
              /\ Len(R[1].stations) = (Len(M) + 1) \div 2
              /\ \A p \in DOMAIN R[1].stations :
                    \E k \in DOMAIN M : /\ M[k].id = R[1].stations[p]
                                         /\ RankBy(M, xs, k) = 2 * p - 1
              /\ Len(R) = 2 =>
                    /\ Len(R[2].stations) = Len(M) \div 2
                    /\ \A p \in DOMAIN R[2].stations :
                          \E k \in DOMAIN M : /\ M[k].id = R[2].stations[p]
                                               /\ RankBy(M, ys, k) = 2 * p
              /\ \A r \in DOMAIN R : \A p, q \in DOMAIN R[r].stations :
                    p # q => R[r].stations[p] # R[r].stations[q]

\* a city with two metro routes over stations on three columns
C28_Witness ==
    /\ Returned
    /\ Len(ModeRoutes("metro")) = 2
    /\ Cardinality({ModeStations("metro")[k].x :
                       k \in DOMAIN ModeStations("metro")}) = 3
    /\ Len(ModeRoutes("metro")[1].stations) >= 3

\* C29: every connection joins two different stations of the station list
\* and has an integer walk time >= 0, whichever of the transfer, backbone,
\* walking and repair steps appended it
C29_WellFormedEdges ==
    \A k \in DOMAIN connections :
        /\ connections[k].from # connections[k].to
        /\ connections[k].from \in StationIds
        /\ connections[k].to \in StationIds
        /\ connections[k].walk_time \in Nat

\* a connection list with a transfer, a walking and a backbone connection
\* between distinct cells
C29_Witness ==
    /\ ConnectionsBuilt
    /\ \E j, k, m \in DOMAIN connections :
          /\ connections[j].walk_time = 2
          /\ connections[k].walk_time = 3
          /\ connections[m].walk_time >= 120

\* the station list with every is_transfer flag cleared
Unmarked(st) == [k \in DOMAIN st |-> [st[k] EXCEPT !.is_transfer = FALSE]]

\* C30: the station list enters the connectivity step with every is_transfer
\* false; the connectivity and route steps keep the length and order of the
\* list and the id, x, y and mode of every station; is_transfer changes only
\* from false to true and only in the transfer step; the routes are those
\* the route step yields on the unmarked list
C30_StationsFrame ==
    /\ [](pc = "transfer" => stations = Unmarked(stations))
    /\ [][(pc \in {"transfer", "backbone", "walking", "repair", "routes"}) =>
            /\ Unmarked(stations') = Unmarked(stations)
            /\ \A k \in DOMAIN stations :
                  stations[k].is_transfer => stations'[k].is_transfer
            /\ pc # "transfer" => stations' = stations]_vars
    /\ [](Returned => routes = generate_routes(Unmarked(stations)))

\* a returned city with routes, a transfer station and a station alone on
\* its cell
C30_Witness ==
    /\ Returned
    /\ routes # <<>>
    /\ \E j, k \in DOMAIN stations :
          stations[j].is_transfer /\ ~ stations[k].is_transfer

-----------------------------------------------------------------------------
Init ==
    /\ gridSize \in GridSizes
    /\ pc = "zones"
    /\ error = "none"
    /\ grid = [c \in Cells(gridSize) |-> "None"]
    /\ zone_k = 1
    /\ zones = <<>>
    /\ stations = <<>>
    /\ station_positions = <<>>
    /\ station_id = 0
    /\ i = 0
    /\ placed = <<>>
    /\ connections = <<>>
    /\ routes = <<>>
    /\ min_dist_arg = 0
    /\ attempts = 0
    /\ sample = <<>>
    /\ found = <<>>
    /\ connected = {}
    /\ components = <<>>
    /\ ordered = <<>>
    /\ remaining = <<>>

Next ==
    \/ ZoneCluster
    \/ ZoneFill
    \/ PlaceMetro
    \/ PlaceTram
    \/ PlaceBus
    \/ ReturnStations
    \/ TransferEdges
    \/ SpanningBackbone
    \/ WalkingEdges
    \/ EnsureConnectivity
    \/ GenerateRoutes

Spec == Init /\ [][Next]_vars

=============================================================================
